---- MODULE Spec2Model ----
(***************************************************************************)
(* Model of control/plugin_manager.go: the loadedPlugins table (a Go slice *)
(* behind a mutex with a shared iteration cursor) and the pluginManager    *)
(* operations LoadPlugin and UnloadPlugin, called by concurrent callers.   *)
(*                                                                         *)
(* A Go slice is a header (backing array, len, cap) over a heap array, so  *)
(* that append and splice act on the backing array exactly as the runtime  *)
(* does: in place while the capacity allows, into a new array otherwise.   *)
(***************************************************************************)
EXTENDS Integers, Sequences, FiniteSets, TLC

\* ---------------------------------------------------------------- bounds
NumProcs == 2           \* concurrent callers
MaxCalls == 4           \* calls made in one run
MaxRecs == MaxCalls     \* loadedPlugin structs allocated: one a call at most
MaxFairCalls == 3       \* calls made in one run under fair scheduling

Procs == 1..NumProcs

\* ------------------------------------------------------------- constants
DetectedState == "detected"
LoadingState == "loading"
LoadedState == "loaded"
UnloadedState == "unloaded"

PluginSuccess == "success"
PluginFailure == "failure"

\* inputs: the identities handshake responses report (same name, two versions),
\* the identity of the structs callers build themselves and hand to Append
\* (another name), and the identities UnloadPlugin is asked for (all of them)
LoadIdents == {[Name |-> "a", Version |-> v] : v \in {1, 2}}
CallerIdents == {[Name |-> "b", Version |-> 1]}
Idents == LoadIdents \cup CallerIdents
Paths == {"/bin/p"}
\* the state of a struct a caller builds itself: it was never loaded
CallerStates == {DetectedState}

\* ------------------------------------------------------------ Go slices
\* the nil pointer of *loadedPlugin; records are referenced by 1..MaxRecs
NilPlugin == 0

\* make([]*loadedPlugin, 0): no backing array, len 0, cap 0
EmptySlice == [arr |-> 0, len |-> 0, cap |-> 0]

\* the elements of slice s, read from heap h
Elems(h, s) == [i \in 1..s.len |-> h[s.arr][i]]

\* capacity the runtime gives a slice of pointers that must grow by one element
GrowCap(cap) == IF cap = 0 THEN cap + 1 ELSE cap + cap

\* Go's append(s, xs...): in place when len+n <= cap (the backing array is
\* overwritten, whoever else refers to it), else into a newly allocated array.
\* Returns the heap after the call and the header returned.
GoAppend(h, s, xs) ==
    LET n == s.len + Len(xs) IN
    IF n <= s.cap
    THEN [heap |-> [h EXCEPT ![s.arr] =
                      [i \in 1..s.cap |->
                          IF i > s.len /\ i <= n THEN xs[i - s.len] ELSE @[i]]],
          slice |-> [s EXCEPT !.len = n]]
    ELSE LET c == IF n > GrowCap(s.cap) THEN n ELSE GrowCap(s.cap)
             old == Elems(h, s)
         IN [heap |-> Append(h, [i \in 1..c |->
                                    IF i <= s.len THEN old[i]
                                    ELSE IF i <= n THEN xs[i - s.len]
                                    ELSE NilPlugin]),
             slice |-> [arr |-> Len(h) + 1, len |-> n, cap |-> c]]

\* s[lo:hi] with 0-based bounds, as Go slices a slice (same backing array)
SubElems(h, s, lo, hi) == [i \in 1..(hi - lo) |-> h[s.arr][lo + i]]

\* ---------------------------------------------------------------- state
VARIABLES
    heap,         \* backing arrays of the table's slices
    table,        \* loadedPlugins.table: the slice header *l.table
    mutex,        \* loadedPlugins.mutex: 0 unlocked, else the caller holding it
    currentIter,  \* loadedPlugins.currentIter
    recs,         \* the loadedPlugin structs, by reference
    nrec,         \* number of structs allocated
    known,        \* references callers hold: records they built or saw in the table
    snap,         \* the slice last returned by Table()
    snapAt,       \* what that slice held when it was returned
    pc,           \* where each caller is in its call
    lv,           \* each caller's arguments and locals while it is in a call
    last,         \* the call that returned last: arguments, result, table before/after
    ncalls        \* calls made so far

vars == <<heap, table, mutex, currentIter, recs, nrec, known, snap, snapAt,
          pc, lv, last, ncalls>>

\* new(loadedPlugin): every field at its zero value
ZeroPlugin == [Name |-> "", Version |-> 0, Type |-> "", State |-> "",
               Token |-> "", Path |-> "", LoadedTime |-> ""]

NoResponse == [State |-> "", ErrorMessage |-> "", Name |-> "", Version |-> 0,
               Type |-> "", Token |-> ""]

\* what WaitForResponse can deliver
Responses ==
    { [State |-> PluginSuccess, ErrorMessage |-> "", Name |-> id.Name, Version |-> id.Version,
       Type |-> "collector", Token |-> "abc"] : id \in LoadIdents }
    \cup { [State |-> PluginFailure, ErrorMessage |-> "bad config", Name |-> "",
            Version |-> 0, Type |-> "", Token |-> ""] }

NoLocals == [op |-> "none", lp |-> NilPlugin, name |-> "", version |-> 0,
             index |-> 0, plugin |-> NilPlugin, found |-> FALSE,
             newtab |-> EmptySlice, res |-> NilPlugin, pre |-> <<>>]

NoCall == [seq |-> 0, op |-> "none", lp |-> NilPlugin, name |-> "",
           version |-> 0, index |-> 0, err |-> "nil", res |-> NilPlugin,
           pre |-> <<>>, post |-> <<>>]

\* the live table: (*l.table)[0:len]
TableElems == Elems(heap, table)

\* newLoadedPlugins / newPluginManager
Init ==
    /\ heap = <<>>
    /\ table = EmptySlice
    /\ mutex = 0
    /\ currentIter = 0
    /\ recs = [r \in 1..MaxRecs |-> ZeroPlugin]
    /\ nrec = 0
    /\ known = {}
    /\ snap = EmptySlice
    /\ snapAt = <<>>
    /\ pc = [p \in Procs |-> "idle"]
    /\ lv = [p \in Procs |-> NoLocals]
    /\ last = NoCall
    /\ ncalls = 0

\* a Lock that never waits
MutexFreeAlways == TRUE

\* sync.Mutex: Lock blocks until the mutex is free
MutexFree == mutex = 0

\* an Unlock that leaves the mutex as it is
MutexKept == mutex' = mutex

MutexUnlock == mutex' = 0

\* a caller that is in no call starts one; callers in no call are
\* interchangeable, so the first of them makes the next call
CanCall(p) ==
    /\ pc[p] = "idle"
    /\ \A q \in Procs : q < p => pc[q] # "idle"
    /\ ncalls < MaxCalls

\* a call of p returns err with its deferred work done: its locals are gone, and
\* last records the call, with the table the call saw (pre) and the table at
\* the return (post)
Returned(p, locals, err) ==
    /\ pc' = [pc EXCEPT ![p] = "idle"]
    /\ lv' = [lv EXCEPT ![p] = NoLocals]
    /\ last' = [seq |-> last.seq + 1, op |-> locals.op, lp |-> locals.lp,
                name |-> locals.name, version |-> locals.version,
                index |-> locals.index, err |-> err, res |-> locals.res,
                pre |-> locals.pre, post |-> Elems(heap', table')]

\* ------------------------------------------------------- loadedPlugins
\* a comparison with the last struct of the table only
AlreadyLoadedLast(t, lp) == Len(t) > 0 /\ t[Len(t)] = lp

\* is the reference lp already in the table t
AlreadyLoaded(t, lp) == \E i \in 1..Len(t) : t[i] = lp

\* a caller calls Append(lp) with a struct it has just built, or one it holds
AppendCall(p) ==
    /\ CanCall(p)
    /\ \/ /\ nrec < MaxRecs
          /\ \E id \in CallerIdents, st \in CallerStates :
                recs' = [recs EXCEPT ![nrec + 1] =
                            [ZeroPlugin EXCEPT !.Name = id.Name,
                                               !.Version = id.Version, !.State = st]]
          /\ nrec' = nrec + 1
          /\ known' = known \cup {nrec + 1}
          /\ lv' = [lv EXCEPT ![p] = [NoLocals EXCEPT !.op = "append", !.lp = nrec + 1]]
       \/ /\ \E r \in known :
                lv' = [lv EXCEPT ![p] = [NoLocals EXCEPT !.op = "append", !.lp = r]]
          /\ UNCHANGED <<recs, nrec, known>>
    /\ pc' = [pc EXCEPT ![p] = "a_lock"]
    /\ ncalls' = ncalls + 1
    /\ UNCHANGED <<heap, table, mutex, currentIter, snap, snapAt, last>>

\* Append: Lock, the pointer comparison loop, then append(*l.table, lp)
AppendScan(p) ==
    /\ pc[p] = "a_lock"
    /\ MutexFree
    /\ IF AlreadyLoaded(TableElems, lv[p].lp)
       THEN /\ MutexUnlock
            /\ UNCHANGED <<heap, table>>
            /\ Returned(p, [lv[p] EXCEPT !.pre = TableElems], "duplicate")
       ELSE LET a == GoAppend(heap, table, <<lv[p].lp>>) IN
            /\ mutex' = p
            /\ heap' = a.heap
            /\ lv' = [lv EXCEPT ![p].newtab = a.slice, ![p].pre = TableElems]
            /\ pc' = [pc EXCEPT ![p] = "a_store"]
            /\ UNCHANGED <<table, last>>
    /\ UNCHANGED <<currentIter, recs, nrec, known, snap, snapAt, ncalls>>

\* Append: l.table = &newLoadedPlugins; return nil (and LoadPlugin returns nil)
AppendStore(p) ==
    /\ pc[p] = "a_store"
    /\ table' = lv[p].newtab
    /\ MutexUnlock
    /\ known' = known \cup {lv[p].lp}
    /\ UNCHANGED <<heap, currentIter, recs, nrec, snap, snapAt, ncalls>>
    /\ Returned(p, lv[p], "nil")

\* Table(): returns *l.table, the header of the live slice, without the mutex
Table(p) ==
    /\ CanCall(p)
    /\ snap' = table
    /\ snapAt' = TableElems
    /\ ncalls' = ncalls + 1
    /\ UNCHANGED <<heap, table, mutex, currentIter, recs, nrec, known>>
    /\ Returned(p, [NoLocals EXCEPT !.op = "table", !.pre = TableElems], "nil")

\* a range test that is off by one: index > len(*l.table)-2
GetOffByOne(p, index) ==
    /\ CanCall(p)
    /\ MutexFree
    /\ ncalls' = ncalls + 1
    /\ UNCHANGED <<heap, table, mutex, currentIter, recs, nrec, known, snap, snapAt>>
    /\ LET locals == [NoLocals EXCEPT !.op = "get", !.index = index,
                                      !.pre = TableElems] IN
       IF index > table.len - 2
       THEN Returned(p, locals, "index out of range")
       ELSE IF index < 0
       THEN Returned(p, locals, "panic")
       ELSE Returned(p, [locals EXCEPT !.res = heap[table.arr][index + 1]], "nil")

\* Get(index): under the mutex from Lock to the deferred Unlock; a negative
\* index passes the range test and panics at the read
Get(p, index) ==
    /\ CanCall(p)
    /\ MutexFree
    /\ ncalls' = ncalls + 1
    /\ UNCHANGED <<heap, table, mutex, currentIter, recs, nrec, known, snap, snapAt>>
    /\ LET locals == [NoLocals EXCEPT !.op = "get", !.index = index,
                                      !.pre = TableElems] IN
       IF index > table.len - 1
       THEN Returned(p, locals, "index out of range")
       ELSE IF index < 0
       THEN Returned(p, locals, "panic")
       ELSE Returned(p, [locals EXCEPT !.res = heap[table.arr][index + 1]], "nil")

\* a splice that leaves the table as it is
spliceKeepsAll(h, s, index) == [heap |-> h, slice |-> s]

\* splice(index): append((*l.table)[:index], (*l.table)[index+1:]...)
splice(h, s, index) ==
    GoAppend(h, [s EXCEPT !.len = index], SubElems(h, s, index + 1, s.len))

\* a Splice that does not take the mutex
SpliceWithoutLock(p, index) ==
    /\ CanCall(p)
    /\ LET a == splice(heap, table, index) IN
         /\ heap' = a.heap
         /\ table' = a.slice
    /\ ncalls' = ncalls + 1
    /\ UNCHANGED <<mutex, currentIter, recs, nrec, known, snap, snapAt>>
    /\ Returned(p, [NoLocals EXCEPT !.op = "splice", !.index = index,
                                    !.pre = TableElems], "nil")

\* Splice(index): Lock, splice, Unlock
Splice(p, index) ==
    /\ CanCall(p)
    /\ MutexFree
    /\ LET a == splice(heap, table, index) IN
         /\ heap' = a.heap
         /\ table' = a.slice
    /\ ncalls' = ncalls + 1
    /\ UNCHANGED <<mutex, currentIter, recs, nrec, known, snap, snapAt>>
    /\ Returned(p, [NoLocals EXCEPT !.op = "splice", !.index = index,
                                    !.pre = TableElems], "nil")

\* ------------------------------------------------ pluginManager.LoadPlugin
\* an error return placed after the Append
LoadFailsAfterAppend(p, locals, err) ==
    /\ LET a == GoAppend(heap, table, <<locals.lp>>) IN
         heap' = a.heap /\ table' = a.slice
    /\ UNCHANGED <<nrec, recs>>
    /\ Returned(p, locals, err)

\* LoadPlugin returns err before Append: nothing refers to lPlugin any more, and
\* the collector frees the struct (the last one allocated gives its slot back)
LoadFails(p, locals, err) ==
    /\ IF locals.lp = nrec
       THEN /\ nrec' = nrec - 1
            /\ recs' = [recs EXCEPT ![nrec] = ZeroPlugin]
       ELSE UNCHANGED <<nrec, recs>>
    /\ UNCHANGED <<heap, table>>
    /\ Returned(p, [locals EXCEPT !.lp = NilPlugin], err)

\* a LoadPlugin that takes the mutex before it starts the plugin
LoadPluginLocked(p, path) ==
    /\ CanCall(p)
    /\ nrec < MaxRecs
    /\ MutexFree
    /\ recs' = [recs EXCEPT ![nrec + 1] =
                  [ZeroPlugin EXCEPT !.Path = path, !.State = DetectedState]]
    /\ nrec' = nrec + 1
    /\ lv' = [lv EXCEPT ![p] = [NoLocals EXCEPT !.op = "load", !.lp = nrec + 1]]
    /\ pc' = [pc EXCEPT ![p] = "l_wait"]
    /\ mutex' = p
    /\ ncalls' = ncalls + 1
    /\ UNCHANGED <<heap, table, last, currentIter, known, snap, snapAt>>

\* lPlugin := new(loadedPlugin) with the path, in DetectedState; then
\* plugin.NewExecutablePlugin(...) and ePlugin.Start(), each of which may fail
LoadPlugin(p, path) ==
    /\ CanCall(p)
    /\ nrec < MaxRecs
    /\ \/ /\ recs' = [recs EXCEPT ![nrec + 1] =
                        [ZeroPlugin EXCEPT !.Path = path, !.State = DetectedState]]
          /\ nrec' = nrec + 1
          /\ lv' = [lv EXCEPT ![p] = [NoLocals EXCEPT !.op = "load", !.lp = nrec + 1]]
          /\ pc' = [pc EXCEPT ![p] = "l_wait"]
          /\ UNCHANGED <<heap, table, last>>
       \/ /\ UNCHANGED <<recs, nrec, heap, table>>
          /\ \E e \in {"create", "start"} :
                Returned(p, [NoLocals EXCEPT !.op = "load"], e)
    /\ ncalls' = ncalls + 1
    /\ UNCHANGED <<mutex, currentIter, known, snap, snapAt>>

\* the response's fields without the change of state
PopulatedStillDetected(lp, resp) ==
    [lp EXCEPT !.Name = resp.Name, !.Version = resp.Version, !.Type = resp.Type,
               !.Token = resp.Token, !.LoadedTime = "now"]

\* the struct LoadPlugin hands to Append: the response's fields, LoadedState
Populated(lp, resp) ==
    [lp EXCEPT !.Name = resp.Name, !.Version = resp.Version, !.Type = resp.Type,
               !.Token = resp.Token, !.LoadedTime = "now",
               !.State = LoadedState]

\* ePlugin.WaitForResponse(3s) returns: the timeout or another error, a response
\* that is not a success, or a success, whose fields fill the struct in
LoadWait(p) ==
    /\ pc[p] = "l_wait"
    /\ \/ \E e \in {"timeout", "wait"} : LoadFails(p, lv[p], e)
       \/ \E resp \in Responses :
            IF resp.State # PluginSuccess
            THEN LoadFails(p, lv[p], "rejected")
            ELSE /\ recs' = [recs EXCEPT ![lv[p].lp] = Populated(@, resp)]
                 /\ pc' = [pc EXCEPT ![p] = "a_lock"]
                 /\ UNCHANGED <<lv, nrec, last, heap, table>>
    /\ UNCHANGED <<mutex, currentIter, known, snap, snapAt, ncalls>>

\* ---------------------------------------------- pluginManager.UnloadPlugin
\* pl is asked for its Name() and Version()
UnloadPlugin(p, name, version) ==
    /\ CanCall(p)
    /\ lv' = [lv EXCEPT ![p] = [NoLocals EXCEPT !.op = "unload", !.name = name,
                                                !.version = version]]
    /\ pc' = [pc EXCEPT ![p] = "u_lock"]
    /\ ncalls' = ncalls + 1
    /\ UNCHANGED <<heap, table, mutex, currentIter, recs, nrec, known, snap, snapAt,
                   last>>

\* a Next that returns true once more at the end of the table
NextPastEnd(iter, len) ==
    IF iter + 1 > len + 1 THEN [iter |-> 0, ok |-> FALSE]
                          ELSE [iter |-> iter + 1, ok |-> TRUE]

\* Next(): the cursor after the call, and what the call returns
Next_(iter, len) ==
    IF iter + 1 > len THEN [iter |-> 0, ok |-> FALSE]
                      ELSE [iter |-> iter + 1, ok |-> TRUE]

\* an Item that reports the cursor as the index
ItemAtCursor(h, s, iter) ==
    IF iter - 1 < 0 \/ iter - 1 >= s.len
    THEN [panic |-> TRUE, i |-> iter, lp |-> NilPlugin]
    ELSE [panic |-> FALSE, i |-> iter, lp |-> h[s.arr][iter]]

\* Item(): the index currentIter - 1 and the element there; reading outside the
\* slice panics
Item(h, s, iter) ==
    IF iter - 1 < 0 \/ iter - 1 >= s.len
    THEN [panic |-> TRUE, i |-> iter - 1, lp |-> NilPlugin]
    ELSE [panic |-> FALSE, i |-> iter - 1, lp |-> h[s.arr][iter]]

\* a key comparison that forgets the version
KeyMatchesNameOnly(name, version, lp) == name = lp.Name

\* the plugin key is its name && version
KeyMatches(name, version, lp) == name = lp.Name /\ version = lp.Version

\* the loop `for Next() { if !found { Item(), compare } else { break } }` run from
\* the state st = [iter, found, index, plugin, panic] to its end
RECURSIVE FindLoop(_, _, _, _, _, _)
FindLoop(h, s, rs, name, version, st) ==
    LET n == Next_(st.iter, s.len)
        it == Item(h, s, n.iter)
    IN
    IF ~n.ok \/ st.found THEN [st EXCEPT !.iter = n.iter]
    ELSE IF it.panic THEN [st EXCEPT !.iter = n.iter, !.panic = TRUE]
    ELSE IF KeyMatches(name, version, rs[it.lp])
    THEN FindLoop(h, s, rs, name, version,
                  [st EXCEPT !.iter = n.iter, !.index = it.i, !.plugin = it.lp,
                             !.found = TRUE])
    ELSE FindLoop(h, s, rs, name, version, [st EXCEPT !.iter = n.iter])

\* p.LoadedPlugins.Lock(), then the loop that looks for pl from the cursor on
UnloadFind(p) ==
    /\ pc[p] = "u_lock"
    /\ MutexFree
    /\ LET st == FindLoop(heap, table, recs, lv[p].name, lv[p].version,
                          [iter |-> currentIter, found |-> FALSE, index |-> 0,
                           plugin |-> NilPlugin, panic |-> FALSE])
       IN
       /\ currentIter' = st.iter
       /\ UNCHANGED <<heap, table>>
       /\ IF st.panic
          THEN /\ MutexUnlock
               /\ Returned(p, [lv[p] EXCEPT !.pre = TableElems], "panic")
          ELSE /\ lv' = [lv EXCEPT ![p].index = st.index, ![p].plugin = st.plugin,
                                   ![p].found = st.found, ![p].pre = TableElems]
               /\ pc' = [pc EXCEPT ![p] = "u_fin"]
               /\ mutex' = p
               /\ UNCHANGED last
    /\ UNCHANGED <<recs, nrec, known, snap, snapAt, ncalls>>

\* after the loop: not found, not loaded, or NonblockingSplice(index); then the
\* deferred Unlock
UnloadFinish(p) ==
    /\ pc[p] = "u_fin"
    /\ MutexUnlock
    /\ UNCHANGED <<currentIter, recs, nrec, known, snap, snapAt, ncalls>>
    /\ IF ~lv[p].found
       THEN /\ UNCHANGED <<heap, table>>
            /\ Returned(p, lv[p], "not found")
       ELSE IF recs[lv[p].plugin].State # LoadedState
       THEN /\ UNCHANGED <<heap, table>>
            /\ Returned(p, lv[p], "not loaded")
       ELSE IF lv[p].index >= table.len
       THEN /\ UNCHANGED <<heap, table>>
            /\ Returned(p, lv[p], "panic")
       ELSE LET a == splice(heap, table, lv[p].index) IN
            /\ heap' = a.heap
            /\ table' = a.slice
            /\ Returned(p, lv[p], "nil")

\* ---------------------------------------------------------- specifications
\* every operation, from any caller
Next ==
    \E p \in Procs :
        \/ AppendCall(p)
        \/ AppendScan(p)
        \/ AppendStore(p)
        \/ Table(p)
        \/ \E index \in -1..(table.len + 1) : Get(p, index)
        \/ \E index \in 0..(table.len - 1) : Splice(p, index)
        \/ \E path \in Paths : LoadPlugin(p, path)
        \/ LoadWait(p)
        \/ \E id \in Idents : UnloadPlugin(p, id.Name, id.Version)
        \/ UnloadFind(p)
        \/ UnloadFinish(p)

Spec == Init /\ [][Next]_vars

\* the operations of loadedPlugins alone
NextRegistry ==
    \E p \in Procs :
        \/ AppendCall(p)
        \/ AppendScan(p)
        \/ AppendStore(p)
        \/ Table(p)
        \/ \E index \in -1..(table.len + 1) : Get(p, index)
        \/ \E index \in 0..(table.len - 1) : Splice(p, index)

SpecRegistry == Init /\ [][NextRegistry]_vars

\* the operations that change the table: Append, Splice, LoadPlugin, UnloadPlugin
NextMutators ==
    \E p \in Procs :
        \/ AppendCall(p)
        \/ AppendScan(p)
        \/ AppendStore(p)
        \/ \E index \in 0..(table.len - 1) : Splice(p, index)
        \/ \E path \in Paths : LoadPlugin(p, path)
        \/ LoadWait(p)
        \/ \E id \in Idents : UnloadPlugin(p, id.Name, id.Version)
        \/ UnloadFind(p)
        \/ UnloadFinish(p)

SpecMutators == Init /\ [][NextMutators]_vars

\* LoadPlugin and UnloadPlugin calls only
NextManager ==
    \E p \in Procs :
        \/ \E path \in Paths : LoadPlugin(p, path)
        \/ LoadWait(p)
        \/ AppendScan(p)
        \/ AppendStore(p)
        \/ \E id \in Idents : UnloadPlugin(p, id.Name, id.Version)
        \/ UnloadFind(p)
        \/ UnloadFinish(p)

SpecManager == Init /\ [][NextManager]_vars

\* LoadPlugin and UnloadPlugin calls, and the readers Table() and Get
NextReaders ==
    \E p \in Procs :
        \/ \E path \in Paths : LoadPlugin(p, path)
        \/ LoadWait(p)
        \/ AppendScan(p)
        \/ AppendStore(p)
        \/ \E id \in Idents : UnloadPlugin(p, id.Name, id.Version)
        \/ UnloadFind(p)
        \/ UnloadFinish(p)
        \/ Table(p)
        \/ \E index \in -1..(table.len + 1) : Get(p, index)

SpecReaders == Init /\ [][NextReaders]_vars

\* LoadPlugin calls only
NextLoad ==
    \E p \in Procs :
        \/ \E path \in Paths : LoadPlugin(p, path)
        \/ LoadWait(p)
        \/ AppendScan(p)
        \/ AppendStore(p)

SpecLoad == Init /\ [][NextLoad]_vars

\* fair scheduling: a call that can take its next step takes it. The handshake
\* wait ends (WaitForResponse returns within its timeout), a goroutine blocked
\* in Lock gets the mutex once it stays free, and a goroutine that holds it
\* runs on to its Unlock
Fairness ==
    \A p \in Procs :
        /\ WF_vars(LoadWait(p))
        /\ WF_vars(AppendScan(p))
        /\ WF_vars(AppendStore(p))
        /\ WF_vars(UnloadFind(p))
        /\ WF_vars(UnloadFinish(p))

\* the calls that take the mutex, LoadPlugin, UnloadPlugin, Get and Splice,
\* MaxFairCalls of them, under fair scheduling
NextLockedFair ==
    \E p \in Procs :
        \/ ncalls < MaxFairCalls /\ \E path \in Paths : LoadPlugin(p, path)
        \/ LoadWait(p)
        \/ AppendScan(p)
        \/ AppendStore(p)
        \/ ncalls < MaxFairCalls /\ \E id \in Idents : UnloadPlugin(p, id.Name, id.Version)
        \/ UnloadFind(p)
        \/ UnloadFinish(p)
        \/ ncalls < MaxFairCalls /\ \E index \in -1..(table.len + 1) : Get(p, index)
        \/ ncalls < MaxFairCalls /\ \E index \in 0..(table.len - 1) : Splice(p, index)

SpecLockedFair == Init /\ [][NextLockedFair]_vars /\ Fairness

\* ------------------------------------------------------------ properties
\* the struct r has the key (name, version)
HasKey(r, name, version) == recs[r].Name = name /\ recs[r].Version = version

\* the positions of table t whose struct has the key (name, version)
Matching(t, name, version) == {i \in 1..Len(t) : HasKey(t[i], name, version)}

\* the reference r is somewhere in table t
Occurs(t, r) == \E i \in 1..Len(t) : t[i] = r

\* t without its k-th element, the others in their order
RemoveAt(t, k) == [i \in 1..(Len(t) - 1) |-> IF i < k THEN t[i] ELSE t[i + 1]]

\* this step is the return of a call of operation op, recorded in last'
JustReturned(op) == last'.seq = last.seq + 1 /\ last'.op = op

\* C1: an UnloadPlugin call for the key of a struct that is in the table and in
\* LoadedState returns nil and leaves the table it found, less exactly one struct
\* with that key, the others in their order.
C1_UnloadOfLoadedRemovesOne ==
    (/\ last.op = "unload"
     /\ \E i \in Matching(last.pre, last.name, last.version) :
           recs[last.pre[i]].State = LoadedState)
    => /\ last.err = "nil"
       /\ \E k \in Matching(last.pre, last.name, last.version) :
             last.post = RemoveAt(last.pre, k)

\* C2: two UnloadPlugin calls for distinct keys, each the key of one struct of
\* the table the first of them finds, that struct in LoadedState, whose critical
\* sections follow one another in either order: both return nil, and neither
\* struct is in the table the second leaves.
C2_TwoUnloadsBothSucceed ==
    [][(/\ JustReturned("unload")
        /\ last.op = "unload"
        /\ <<last.name, last.version>> # <<last'.name, last'.version>>
        /\ last'.pre = last.post
        /\ \A c \in {last, last'} :
              /\ Cardinality(Matching(last.pre, c.name, c.version)) = 1
              /\ \A i \in Matching(last.pre, c.name, c.version) :
                    recs[last.pre[i]].State = LoadedState)
       => /\ last.err = "nil"
          /\ last'.err = "nil"
          /\ \A c \in {last, last'} :
                \A i \in Matching(last.pre, c.name, c.version) :
                   ~Occurs(last'.post, last.pre[i])]_vars

\* C3: with LoadPlugin calls only, in any interleaving, the step at which a call
\* returns nil puts that call's struct at the end of the table, one longer, and
\* no other step (a call that returns an error included) changes the table: the
\* length is the number of calls that returned nil, and no append is lost.
C3_LengthCountsSuccessfulLoads ==
    [][IF JustReturned("load") /\ last'.err = "nil"
       THEN Elems(heap', table') = Append(TableElems, last'.lp)
       ELSE Elems(heap', table') = TableElems]_vars

\* two loads have returned nil, the second while another call waited to append
C3_Witness ==
    /\ last.op = "load" /\ last.err = "nil"
    /\ table.len >= 2
    /\ \E p \in Procs : pc[p] = "a_lock"

\* a step of a LoadPlugin call that comes before its Append
LoadStepBeforeAppend ==
    \E p \in Procs : \/ pc[p] = "idle" /\ pc'[p] = "l_wait"
                     \/ pc[p] = "l_wait" /\ pc'[p] # "l_wait"

\* the reference r is in some backing array of heap h
InHeap(h, r) == \E a \in 1..Len(h) : \E i \in 1..Len(h[a]) : h[a][i] = r

\* C4: the step at which LoadPlugin returns an error, after a failed creation or
\* start, a timeout or other wait error, or a response that is not a success, and
\* every step of the call before it, leaves the table and its backing arrays as
\* they were; the struct of a call that has not reached Append is in no table.
C4_FailedLoadLeavesTable ==
    [][(LoadStepBeforeAppend \/ (JustReturned("load") /\ last'.err # "nil"))
       => /\ table' = table
          /\ heap' = heap
          /\ \A p \in Procs : pc[p] = "l_wait" => ~InHeap(heap', lv[p].lp)]_vars

\* a load was rejected by the plugin's response while the table held a struct
C4_Witness ==
    /\ last.op = "load" /\ last.err = "rejected"
    /\ table.len >= 1
    /\ last.post = TableElems

\* C5: an UnloadPlugin call for a key that no struct of the table has returns
\* the not-found error and leaves the table as it found it.
C5_UnloadOfAbsentKey ==
    (last.op = "unload" /\ Matching(last.pre, last.name, last.version) = {})
    => last.err = "not found" /\ last.post = last.pre

\* an unload was refused as not found on a table that held structs
C5_Witness ==
    /\ last.op = "unload" /\ last.err = "not found"
    /\ Len(last.pre) >= 1
    /\ Matching(last.pre, last.name, last.version) = {}

\* C6: an UnloadPlugin call for the key of a struct that is in the table and not
\* in LoadedState (no struct with that key is loaded) fails with the invalid-state
\* error and removes nothing.
C6_UnloadOfNotLoaded ==
    (/\ last.op = "unload"
     /\ Matching(last.pre, last.name, last.version) # {}
     /\ \A i \in Matching(last.pre, last.name, last.version) :
           recs[last.pre[i]].State # LoadedState)
    => last.err = "not loaded" /\ last.post = last.pre

\* C7: Append of a reference that is in the table returns the duplicate error
\* and leaves the table as it was, and no reference is at two positions of the
\* table after any Append, Splice, LoadPlugin and UnloadPlugin calls.
C7_NoReferenceTwice ==
    /\ \A i, j \in 1..table.len : TableElems[i] = TableElems[j] => i = j
    /\ (last.op = "append" /\ Occurs(last.pre, last.lp))
       => last.err = "duplicate" /\ last.post = last.pre

\* an Append of a reference the table held was refused
C7_Witness ==
    /\ last.op = "append" /\ last.err = "duplicate"
    /\ Occurs(last.pre, last.lp)
    /\ Len(last.pre) >= 2

\* C8: the slice Table() returned holds, after any later Append or Splice, the
\* structs it held when it was returned, at the same positions.
C8_SnapshotKeepsMembership == Elems(heap, snap) = snapAt

\* C9: no two structs of the table have the same (name, version).
C9_KeyUniqueInTable ==
    \A i, j \in 1..table.len :
        HasKey(TableElems[i], recs[TableElems[j]].Name, recs[TableElems[j]].Version)
        => i = j

\* C10: Get(index) returns the out-of-range error for every index >= the length
\* of the table and, for 0 <= index < length, no error and the struct at that
\* position; the table and its backing arrays are as before the call.
C10_GetByIndex ==
    [][JustReturned("get")
       => /\ last'.index >= table.len => last'.err = "index out of range"
          /\ (0 <= last'.index /\ last'.index < table.len)
             => last'.err = "nil" /\ last'.res = TableElems[last'.index + 1]
          /\ table' = table
          /\ heap' = heap]_vars

\* Get returned the struct at a position after the first
C10_Witness ==
    /\ last.op = "get" /\ last.err = "nil"
    /\ last.index >= 1
    /\ last.res = last.pre[last.index + 1]
    /\ last.res # NilPlugin

\* C11: after an UnloadPlugin call that returned nil on a table with exactly one
\* struct of its key, the next UnloadPlugin call for the same key, on the table
\* the first left (no load in between), returns the not-found error and leaves
\* the table as it found it.
C11_SecondUnloadNotFound ==
    [][(/\ JustReturned("unload")
        /\ last.op = "unload" /\ last.err = "nil"
        /\ Cardinality(Matching(last.pre, last.name, last.version)) = 1
        /\ last'.name = last.name /\ last'.version = last.version
        /\ last'.pre = last.post)
       => last'.err = "not found" /\ last'.post = last'.pre]_vars

\* the same key was unloaded twice in a row from a table that held another
\* struct: nil, then not found
C11_Witness ==
    /\ last.op = "unload" /\ last.err = "not found"
    /\ Len(last.pre) >= 1
    /\ Matching(last.pre, last.name, last.version) = {}
    /\ \E r \in 1..nrec : /\ HasKey(r, last.name, last.version)
                          /\ recs[r].State = LoadedState
                          /\ ~Occurs(last.pre, r)
                          /\ \A p \in Procs : lv[p].lp # r

\* the references a reader can come by: those of the table and of every backing
\* array a slice returned by Table() may refer to, and the one Get returned
Visible ==
    UNION {{heap[a][i] : i \in 1..Len(heap[a])} : a \in 1..Len(heap)}
    \cup {last.res}

\* C12: every struct LoadPlugin built that a reader can see in the table, in a
\* slice Table() returned or as the result of Get is in LoadedState with the
\* name, version, type and token of its handshake response and its load time.
C12_NoPartialRecordVisible ==
    \A r \in Visible \ {NilPlugin} :
        recs[r].Path # ""
        => /\ recs[r].State = LoadedState
           /\ \E resp \in Responses :
                 /\ resp.State = PluginSuccess
                 /\ recs[r].Name = resp.Name /\ recs[r].Version = resp.Version
                 /\ recs[r].Type = resp.Type /\ recs[r].Token = resp.Token
           /\ recs[r].LoadedTime # ""

\* Get returned a struct LoadPlugin built while another load waited for its
\* response, its struct still in DetectedState
C12_Witness ==
    /\ last.op = "get" /\ last.err = "nil"
    /\ last.res # NilPlugin /\ recs[last.res].Path # ""
    /\ \E p \in Procs : pc[p] = "l_wait" /\ recs[lv[p].lp].State = DetectedState

\* the changes of state the state machine allows a struct, with the creation
\* of a struct (from the zero value) and its disposal (back to it)
StateMachine ==
    {<<"", DetectedState>>, <<DetectedState, LoadingState>>,
     <<LoadingState, LoadedState>>, <<LoadedState, UnloadedState>>,
     <<DetectedState, "">>, <<LoadingState, "">>}

\* C13: the State of a struct changes only along Detected -> Loading -> Loaded
\* -> Unloaded, and the struct an UnloadPlugin call removes from the table is in
\* UnloadedState when the call returns.
C13_StateMachineFollowed ==
    [][/\ \A r \in 1..MaxRecs :
             recs'[r].State # recs[r].State
             => <<recs[r].State, recs'[r].State>> \in StateMachine
       /\ (JustReturned("unload") /\ last'.err = "nil")
          => \A i \in 1..Len(last'.pre) :
                ~Occurs(last'.post, last'.pre[i])
                => recs'[last'.pre[i]].State = UnloadedState]_vars

\* C14: from the match of UnloadPlugin's scan to its removal no other call
\* changes the table or its backing array: the struct at the found index is the
\* one that was matched, it has the key asked for, and the call that returns
\* nil leaves the table it scanned less the struct at that index.
C14_FindAndRemoveAtomic ==
    [][/\ \A p \in Procs :
             (pc[p] = "u_fin" /\ lv[p].found)
             => /\ TableElems = lv[p].pre
                /\ lv[p].index < table.len
                /\ TableElems[lv[p].index + 1] = lv[p].plugin
                /\ HasKey(lv[p].plugin, lv[p].name, lv[p].version)
       /\ (JustReturned("unload") /\ last'.err = "nil")
          => /\ last'.pre = TableElems
             /\ last'.post = RemoveAt(TableElems, last'.index + 1)]_vars

\* an unload removed a struct after the first of the table while another call
\* waited for the mutex
C14_Witness ==
    /\ last.op = "unload" /\ last.err = "nil" /\ last.index >= 1
    /\ \E p \in Procs : pc[p] \in {"a_lock", "u_lock"}

\* the lowest position of the non-empty set of positions m
Lowest(m) == CHOOSE i \in m : \A j \in m : i <= j

\* C15: an UnloadPlugin call on a table in which several structs have the key
\* asked for selects the one at the lowest index: if that struct is loaded the
\* call returns nil and leaves the table less that struct, the later matches
\* in place, and if not the call returns the invalid-state error.
C15_FirstMatchWins ==
    (last.op = "unload"
     /\ Cardinality(Matching(last.pre, last.name, last.version)) >= 2)
    => LET k == Lowest(Matching(last.pre, last.name, last.version)) IN
       IF recs[last.pre[k]].State = LoadedState
       THEN last.err = "nil" /\ last.post = RemoveAt(last.pre, k)
       ELSE last.err = "not loaded" /\ last.post = last.pre

\* C16: a LoadPlugin call that creates and starts the plugin or waits for its
\* response does not hold the mutex, and none of these steps takes, releases or
\* waits for it: the mutex is held only by a call between its Lock and its
\* Unlock, in Append or in UnloadPlugin, so other calls lock and return while a
\* load waits, and the load locks only in its final Append.
C16_HandshakeOutsideLock ==
    [][/\ \A p \in Procs : pc[p] = "l_wait" => mutex # p
       /\ mutex # 0 => pc[mutex] \in {"a_store", "u_fin"}
       /\ LoadStepBeforeAppend => mutex' = mutex]_vars

\* while a load waits for its response, a load that began after it has been
\* through Append and returned nil, and an unload holds the mutex
C16_Witness ==
    \E p \in Procs :
        /\ pc[p] = "l_wait"
        /\ last.op = "load" /\ last.err = "nil" /\ last.lp > lv[p].lp
        /\ \E q \in Procs : pc[q] = "u_fin" /\ mutex = q

\* the cursor after k calls of Next() from cursor 0 on a table of length len
RECURSIVE CursorAfter(_, _)
CursorAfter(k, len) ==
    IF k = 0 THEN 0 ELSE Next_(CursorAfter(k - 1, len), len).iter

\* C17: on the table as it is, from cursor 0, the k-th Next() (k = 1..len)
\* returns true and the Item() after it yields (k-1, table[k-1]); the
\* (len+1)-th Next() returns false and leaves the cursor at 0. And a scan of
\* UnloadPlugin that began at cursor 0 and has ended without a match has seen
\* every struct (none has the key) and left the cursor at 0.
C17_IterationProtocol ==
    [][/\ \A k \in 1..table.len :
             /\ Next_(CursorAfter(k - 1, table.len), table.len)
                   = [iter |-> k, ok |-> TRUE]
             /\ Item(heap, table, CursorAfter(k, table.len))
                   = [panic |-> FALSE, i |-> k - 1, lp |-> TableElems[k]]
       /\ Next_(CursorAfter(table.len, table.len), table.len)
             = [iter |-> 0, ok |-> FALSE]
       /\ \A p \in Procs :
             (pc[p] = "u_lock" /\ pc'[p] = "u_fin" /\ currentIter = 0)
             => IF Matching(TableElems, lv[p].name, lv[p].version) = {}
                THEN ~lv'[p].found /\ currentIter' = 0
                ELSE LET k == Lowest(Matching(TableElems, lv[p].name, lv[p].version))
                     IN /\ lv'[p].found
                        /\ lv'[p].index = k - 1
                        /\ lv'[p].plugin = TableElems[k]]_vars

\* after two loads, the only calls before it, an unload scanned the table of
\* two from cursor 0, found no struct with its key and left the cursor at 0
C17_Witness ==
    /\ last.op = "unload" /\ last.err = "not found"
    /\ last.seq = 3 /\ ncalls = 3
    /\ \A p \in Procs : pc[p] = "idle"
    /\ Len(last.pre) = 2
    /\ Matching(last.pre, last.name, last.version) = {}
    /\ currentIter = 0

\* C18: whenever an UnloadPlugin call is about to take the mutex and begin its
\* scan, after any LoadPlugin and UnloadPlugin calls, currentIter is 0.
C18_CursorZeroAtScan ==
    (mutex = 0 /\ \E p \in Procs : pc[p] = "u_lock") => currentIter = 0

\* C19: no UnloadPlugin call, whatever the cursor at which its scan began,
\* reads the table outside 0..len-1 in Item() or splices at an index outside
\* 0..len-1: no call ends in a panic, the cursor is never negative, and the
\* index found is that of a struct of the table.
C19_NoOutOfRangeAccess ==
    /\ last.op = "unload" => last.err # "panic"
    /\ currentIter >= 0
    /\ \A p \in Procs :
          (pc[p] = "u_fin" /\ lv[p].found)
          => /\ 0 <= lv[p].index /\ lv[p].index < table.len
             /\ lv[p].plugin # NilPlugin

\* a scan has read the structs at indices 0 and 1 and found at index 1 the
\* loaded struct the call is about to splice out
C19_Witness ==
    \E p \in Procs :
        /\ pc[p] = "u_fin" /\ lv[p].found /\ lv[p].index >= 1
        /\ recs[lv[p].plugin].State = LoadedState
        /\ mutex = p

====
